---- MODULE Spec2Model ----
(***************************************************************************)
(* Training-cycle scheduler and weather-conditioned workout selector of    *)
(* the hurdles training dashboard (routes.py, enhanced_routes.py,          *)
(* professional_routes.py, weather_service.py).                            *)
(*                                                                         *)
(* Python values are encoded as follows.  A dict is a record that has      *)
(* every key the code looks up; a key that the dict does not have holds    *)
(* Absent, a key whose JSON value is null holds Null (Python None).  A     *)
(* value that is not a dict has isdict = FALSE: calling .get on it raises  *)
(* AttributeError.  datetime values are counted in clock slots relative    *)
(* to the plan start date, midnight: slot 0 is the first slot of           *)
(* 2024-09-01, slot -1 the last slot of 2024-08-31.                        *)
(***************************************************************************)
EXTENDS Integers, Sequences, FiniteSets, TLC

(* ------------------------------ bounds --------------------------------- *)

\* longest daily_workouts list the plan file holds
MaxPlanLen == 3

\* the clock ranges over the days -MaxDays .. MaxDays-1 around the start date
MaxDays == 3

\* clock readings distinguished within one calendar day
SlotsPerDay == 2

\* calendar days over which the TrainingLog table is followed
LogDays == 2

\* the most rows the CoachMessage table is followed to
MaxMessages == 3

\* the most rows that POSTs add to the PersonalRecord table
MaxRecords == 2

\* the training days asked of /api/endurance-workout: -MaxTrainingDay..MaxTrainingDay
MaxTrainingDay == 10

MinNow == -(MaxDays * SlotsPerDay)

MaxNow == MaxDays * SlotsPerDay - 1

(* --------------------------- Python values ----------------------------- *)

\* a dict key that is missing
Absent == "<absent>"

\* JSON null / Python None
Null == "<None>"

OutdoorText == "6x100m"

IndoorText == "Treadmill intervals"

FocusNames == <<"Speed", "Recovery", "Endurance", "Technique", "Strength", "Tempo">>

\* dict.get(key, default) applied to the value v stored under key
DictGet(v, default) == IF v = Absent THEN default ELSE v

\* Field contents of a daily_workouts entry: <<is a dict, outdoor_workout, indoor_workout>>
EntryPatterns ==
  << <<TRUE, OutdoorText, IndoorText>>,
     <<TRUE, OutdoorText, Null>>,
     <<TRUE, Absent, IndoorText>>,
     <<TRUE, Absent, Absent>>,
     <<TRUE, OutdoorText, Absent>>,
     <<TRUE, Null, IndoorText>>,
     <<TRUE, Null, Null>>,
     <<TRUE, Absent, Null>>,
     <<TRUE, Null, Absent>>,
     <<FALSE, Absent, Absent>> >>

NumPatterns == Len(EntryPatterns)

\* entry number i (1-based) of the plan of shape k: every entry has its own
\* focus, and its fields follow the patterns in rotation starting at k
PlanEntry(i, k) ==
  LET p == EntryPatterns[((k + i - 1) % NumPatterns) + 1]
  IN  [isdict |-> p[1],
       day |-> Absent,
       focus |-> IF p[1] THEN FocusNames[i] ELSE Absent,
       outdoor_workout |-> p[2],
       indoor_workout |-> p[3]]

PlanOfShape(n, k) == [i \in 1..n |-> PlanEntry(i, k)]

(* the contents of training_plan.json *)
PlanFiles ==
  {[kind |-> "missing", n |-> 0, k |-> 0],
   [kind |-> "invalid_json", n |-> 0, k |-> 0],
   [kind |-> "not_a_dict", n |-> 0, k |-> 0],
   [kind |-> "no_key", n |-> 0, k |-> 0],
   [kind |-> "null_key", n |-> 0, k |-> 0]}
  \cup {[kind |-> "plan", n |-> 0, k |-> 0]}
  \cup {[kind |-> "plan", n |-> n, k |-> k] : n \in 1..MaxPlanLen, k \in 0..(NumPatterns - 1)}

\* with open('training_plan.json') as f: training_data = json.load(f)
\* runs at import time, outside any try block: a missing or invalid file
\* raises out of the module import and no route is registered.
LoadTrainingData(file) ==
  [loaded |-> file.kind \notin {"missing", "invalid_json"},
   isdict |-> file.kind \in {"no_key", "null_key", "plan"},
   dw_kind |-> CASE file.kind = "plan" -> "list"
                 [] file.kind = "null_key" -> "null"
                 [] OTHER -> "absent",
   daily_workouts |-> IF file.kind = "plan" THEN PlanOfShape(file.n, file.k) ELSE <<>>]

(* ------------------------------ state ---------------------------------- *)

VARIABLES
  training_data,  \* module global loaded at import
  now,            \* the wall clock, in slots since the plan start date
  resp,           \* what the last request handler computed and rendered
  snap,           \* an earlier response, kept for comparison with resp
  logs,           \* the rows of the TrainingLog table, in insertion order
  wx,             \* the last call of /api/weather: what it read and answered
  req,            \* the locals of the index requests in progress, per worker
  messages,       \* the rows of the CoachMessage table, in insertion order
  records,        \* the rows of the PersonalRecord table, in insertion order
  page            \* what the last handler of the other pages answered

vars == <<training_data, now, resp, snap, logs, wx, req, messages, records, page>>

(* ------------------------- get_daily_workout --------------------------- *)

\* int(seconds / 86400): rounds towards zero instead of down
DaysSinceStartTrunc(today) ==
  IF today >= 0 THEN today \div SlotsPerDay ELSE -((-today) \div SlotsPerDay)

\* max(0, days): a date before the start counts as day 0
DaysSinceStartClamped(today) ==
  IF today >= 0 THEN today \div SlotsPerDay ELSE 0

\* round(seconds / 86400): the nearest day instead of the day begun
DaysSinceStartRounded(today) == (2 * today + SlotsPerDay) \div (2 * SlotsPerDay)

\* days counted from 1: the start date is day 1
DaysSinceStartOneBased(today) == today \div SlotsPerDay + 1

\* (today - start_date).days: timedelta normalises to 0 <= seconds < 86400,
\* so .days is the floor of the difference in days
DaysSinceStart(today) == today \div SlotsPerDay

\* abs(a) % n
PyModAbs(a, n) == (IF a < 0 THEN -a ELSE a) % n

\* a % (n + 1): the cycle is one day longer than the plan
PyModLong(a, n) == a % (n + 1)

\* Python's % on ints: the result has the sign of the divisor (floor modulo)
PyMod(a, n) == a % n

\* list[i] with Python's indexing: 0-based, a negative i counts from the
\* end, anything else raises IndexError
PyIndex(list, i, none) ==
  IF 0 <= i /\ i < Len(list) THEN [raised |-> FALSE, value |-> list[i + 1]]
  ELSE IF i < 0 /\ -i <= Len(list) THEN [raised |-> FALSE, value |-> list[Len(list) + i + 1]]
  ELSE [raised |-> TRUE, value |-> none]

\* the except branch of get_daily_workout
DefaultWorkout ==
  [isdict |-> TRUE,
   day |-> "1",
   focus |-> "Recovery",
   outdoor_workout |-> "Light jog and stretching",
   indoor_workout |-> "Mobility and flexibility routine"]

\* placeholder carried where an exception left no value
NoWorkout ==
  [isdict |-> FALSE, day |-> Absent, focus |-> Absent,
   outdoor_workout |-> Absent, indoor_workout |-> Absent]

\* the try body of get_daily_workout; raised stands for any exception
\* (TypeError on a non-dict, KeyError on a missing key, TypeError on
\* len(None), ZeroDivisionError on an empty list)
DailyWorkoutBody(td, today) ==
  IF ~td.isdict \/ td.dw_kind # "list" \/ Len(td.daily_workouts) = 0
  THEN [raised |-> TRUE, value |-> NoWorkout]
  ELSE LET cycle_day == PyMod(DaysSinceStart(today), Len(td.daily_workouts))
       IN  PyIndex(td.daily_workouts, cycle_day, NoWorkout)

\* the body without its try/except: the exception reaches the caller
get_daily_workout_uncaught(td, today) == DailyWorkoutBody(td, today)

\* the cycle position moved on by one once a request has been served
get_daily_workout_counting(td, today) ==
  LET r == DailyWorkoutBody(td, IF resp.route = "none" THEN today ELSE today + SlotsPerDay)
  IN  IF r.raised THEN [raised |-> FALSE, value |-> DefaultWorkout] ELSE r

\* try: <body> except Exception: return <default>
get_daily_workout(td, today) ==
  LET r == DailyWorkoutBody(td, today)
  IN  IF r.raised THEN [raised |-> FALSE, value |-> DefaultWorkout] ELSE r

(* ------------------------ get_weather_condition ------------------------ *)

ApiKeys == {"demo_key", "real_key"}

\* what the OpenWeatherMap request yields: an exception of requests, a
\* body without the fields read, or the value of data['weather'][0]['main']
ApiOutcomes ==
  {"timeout", "http_error", "invalid_json", "no_weather_key", "empty_weather_list",
   "main_not_str",
   "Clear", "Clouds", "Rain", "Drizzle", "Thunderstorm", "Snow", "Mist", "Fog",
   "Haze", "Tornado"}

\* str.lower() on the values of main the API documents
Lower(s) ==
  CASE s = "Clear" -> "clear"
    [] s = "Clouds" -> "clouds"
    [] s = "Rain" -> "rain"
    [] s = "Drizzle" -> "drizzle"
    [] s = "Thunderstorm" -> "thunderstorm"
    [] s = "Snow" -> "snow"
    [] s = "Mist" -> "mist"
    [] s = "Fog" -> "fog"
    [] s = "Haze" -> "haze"
    [] s = "Tornado" -> "tornado"
    [] OTHER -> s

\* condition_map.get(weather_main, weather_main): an unlisted value passes
ConditionMapPassing(weather_main) ==
  CASE weather_main = "clear" -> "clear"
    [] weather_main = "clouds" -> "partly_cloudy"
    [] weather_main \in {"rain", "drizzle", "thunderstorm"} -> "rain"
    [] weather_main = "snow" -> "snow"
    [] weather_main \in {"mist", "fog", "haze"} -> "cloudy"
    [] OTHER -> weather_main

\* condition_map.get(weather_main, 'cloudy')
ConditionMap(weather_main) ==
  CASE weather_main = "clear" -> "clear"
    [] weather_main = "clouds" -> "partly_cloudy"
    [] weather_main \in {"rain", "drizzle", "thunderstorm"} -> "rain"
    [] weather_main = "snow" -> "snow"
    [] weather_main \in {"mist", "fog", "haze"} -> "cloudy"
    [] OTHER -> "cloudy"

\* the try body of get_weather_condition: exc names the exception raised,
\* "none" when the body returned value
WeatherBody(api_key, outcome) ==
  IF api_key = "demo_key" THEN [exc |-> "none", value |-> "clear"]
  ELSE IF outcome \in {"timeout", "http_error"}
  THEN [exc |-> "RequestException", value |-> Absent]
  ELSE IF outcome = "invalid_json" THEN [exc |-> "ValueError", value |-> Absent]
  ELSE IF outcome = "no_weather_key" THEN [exc |-> "KeyError", value |-> Absent]
  ELSE IF outcome = "empty_weather_list" THEN [exc |-> "IndexError", value |-> Absent]
  ELSE IF outcome = "main_not_str" THEN [exc |-> "AttributeError", value |-> Absent]
  ELSE [exc |-> "none", value |-> ConditionMap(Lower(outcome))]

\* without the last clause, except Exception
get_weather_condition_two_clauses(api_key, outcome) ==
  LET r == WeatherBody(api_key, outcome)
  IN  IF r.exc = "none" THEN [raised |-> FALSE, value |-> r.value]
      ELSE IF r.exc \in {"RequestException", "KeyError"}
      THEN [raised |-> FALSE, value |-> "unknown"]
      ELSE [raised |-> TRUE, value |-> Absent]

\* try: <body> except RequestException / KeyError / Exception: return "unknown"
get_weather_condition(api_key, outcome) ==
  LET r == WeatherBody(api_key, outcome)
  IN  IF r.exc = "none" THEN [raised |-> FALSE, value |-> r.value]
      ELSE IF r.exc = "RequestException" THEN [raised |-> FALSE, value |-> "unknown"]
      ELSE IF r.exc = "KeyError" THEN [raised |-> FALSE, value |-> "unknown"]
      ELSE [raised |-> FALSE, value |-> "unknown"]

(* ------------------------- workout selection --------------------------- *)

\* one lookup per branch, as log_workout does it
SelectWorkoutNoFallback(daily_workout, weather_condition) ==
  IF ~daily_workout.isdict
  THEN [raised |-> TRUE, recommended_workout |-> Absent, workout_type |-> Absent]
  ELSE IF weather_condition \in {"clear", "partly_cloudy"}
  THEN [raised |-> FALSE,
        recommended_workout |-> DictGet(daily_workout.outdoor_workout, "Rest day"),
        workout_type |-> "outdoor"]
  ELSE [raised |-> FALSE,
        recommended_workout |-> DictGet(daily_workout.indoor_workout, "Rest day"),
        workout_type |-> "indoor"]

\* the type follows the field the text was taken from
SelectWorkoutTypeByField(daily_workout, weather_condition) ==
  IF ~daily_workout.isdict
  THEN [raised |-> TRUE, recommended_workout |-> Absent, workout_type |-> Absent]
  ELSE IF weather_condition \in {"clear", "partly_cloudy"}
  THEN [raised |-> FALSE,
        recommended_workout |->
          DictGet(daily_workout.outdoor_workout,
                  DictGet(daily_workout.indoor_workout, "Rest day")),
        workout_type |-> IF daily_workout.outdoor_workout \in {Absent, Null}
                         THEN "indoor" ELSE "outdoor"]
  ELSE [raised |-> FALSE,
        recommended_workout |->
          DictGet(daily_workout.indoor_workout,
                  DictGet(daily_workout.outdoor_workout, "Rest day")),
        workout_type |-> "indoor"]

\* a lookup table of the five known tags: KeyError on any other tag
SelectWorkoutKnownTagsOnly(daily_workout, weather_condition) ==
  IF ~daily_workout.isdict \/ weather_condition \notin {"clear", "partly_cloudy", "cloudy", "rain", "snow"}
  THEN [raised |-> TRUE, recommended_workout |-> Absent, workout_type |-> Absent]
  ELSE IF weather_condition \in {"clear", "partly_cloudy"}
  THEN [raised |-> FALSE,
        recommended_workout |->
          DictGet(daily_workout.outdoor_workout,
                  DictGet(daily_workout.indoor_workout, "Rest day")),
        workout_type |-> "outdoor"]
  ELSE [raised |-> FALSE,
        recommended_workout |->
          DictGet(daily_workout.indoor_workout,
                  DictGet(daily_workout.outdoor_workout, "Rest day")),
        workout_type |-> "indoor"]

\* the if/else of index, dashboard and professional_dashboard; .get on a
\* value that is not a dict raises AttributeError
SelectWorkout(daily_workout, weather_condition) ==
  IF ~daily_workout.isdict
  THEN [raised |-> TRUE, recommended_workout |-> Absent, workout_type |-> Absent]
  ELSE IF weather_condition \in {"clear", "partly_cloudy"}
  THEN [raised |-> FALSE,
        recommended_workout |->
          DictGet(daily_workout.outdoor_workout,
                  DictGet(daily_workout.indoor_workout, "Rest day")),
        workout_type |-> "outdoor"]
  ELSE [raised |-> FALSE,
        recommended_workout |->
          DictGet(daily_workout.indoor_workout,
                  DictGet(daily_workout.outdoor_workout, "Rest day")),
        workout_type |-> "indoor"]

\* if weather_condition == 'clear': partly_cloudy is logged as indoor
SelectLoggedClearOnly(daily_workout, weather_condition) ==
  IF ~daily_workout.isdict
  THEN [raised |-> TRUE, recommended_workout |-> Absent, workout_type |-> Absent]
  ELSE IF weather_condition \in {"clear"}
  THEN [raised |-> FALSE,
        recommended_workout |-> DictGet(daily_workout.outdoor_workout, "Rest day"),
        workout_type |-> "outdoor"]
  ELSE [raised |-> FALSE,
        recommended_workout |-> DictGet(daily_workout.indoor_workout, "Rest day"),
        workout_type |-> "indoor"]

\* the if/else of log_workout's "create new log" branch: no second lookup
SelectLogged(daily_workout, weather_condition) ==
  IF ~daily_workout.isdict
  THEN [raised |-> TRUE, recommended_workout |-> Absent, workout_type |-> Absent]
  ELSE IF weather_condition \in {"clear", "partly_cloudy"}
  THEN [raised |-> FALSE,
        recommended_workout |-> DictGet(daily_workout.outdoor_workout, "Rest day"),
        workout_type |-> "outdoor"]
  ELSE [raised |-> FALSE,
        recommended_workout |-> DictGet(daily_workout.indoor_workout, "Rest day"),
        workout_type |-> "indoor"]

(* ---------------------------- the dashboards --------------------------- *)

\* the except branch of index / dashboard / professional_dashboard
ErrorPage(route, today) ==
  [route |-> route, today |-> today, resolved |-> NoWorkout, failed |-> TRUE,
   daily_workout |-> [isdict |-> TRUE, day |-> Absent, focus |-> "Error",
                      outdoor_workout |-> "Unable to load workout",
                      indoor_workout |-> Absent],
   recommended_workout |-> "Please check back later",
   workout_type |-> "error",
   weather_condition |-> "unknown",
   weather_read |-> "unknown"]

\* the whole handler: resolve, read the weather, select, read the other
\* keys of training_data (AttributeError when it is not a dict), render.
\* today and weather_read are what the handler read, resolved is its local
\* daily_workout; the other fields are the template's arguments.
RenderFrom(route, td, today, dw, weather) ==
  LET sel == SelectWorkout(dw.value, weather)
  IN  IF dw.raised \/ sel.raised \/ ~td.isdict
      THEN [ErrorPage(route, today) EXCEPT !.weather_read = weather,
                                           !.resolved = dw.value]
      ELSE [route |-> route, today |-> today, resolved |-> dw.value, failed |-> FALSE,
            daily_workout |-> dw.value,
            recommended_workout |-> sel.recommended_workout,
            workout_type |-> sel.workout_type,
            weather_condition |-> weather,
            weather_read |-> weather]

\* the handler from its first line: daily_workout = get_daily_workout()
RenderDashboard(route, td, today, weather) ==
  RenderFrom(route, td, today, get_daily_workout(td, today), weather)

NoResp ==
  [route |-> "none", today |-> 0, resolved |-> NoWorkout, failed |-> FALSE,
   daily_workout |-> NoWorkout,
   recommended_workout |-> Absent,
   workout_type |-> Absent,
   weather_condition |-> Absent,
   weather_read |-> Absent]

(* ----------------------------- log_workout ---------------------------- *)

\* date.today(): the calendar day of the clock, in days since the start date
DateOf(t) == t \div SlotsPerDay

\* request.form of a POST: a key the form does not send holds Absent
LogForms ==
  {[completed |-> "on", notes |-> "felt strong", difficulty_rating |-> "5",
    energy_level |-> "2"],
   [completed |-> Absent, notes |-> Absent, difficulty_rating |-> Absent,
    energy_level |-> Absent],
   [completed |-> "on", notes |-> Absent, difficulty_rating |-> "hard",
    energy_level |-> Absent]}

\* int(request.form.get(name, 3)): ValueError on a non-numeric string
ParseRating(v) ==
  CASE v = Absent -> [raised |-> FALSE, value |-> 3]
    [] v = "1" -> [raised |-> FALSE, value |-> 1]
    [] v = "2" -> [raised |-> FALSE, value |-> 2]
    [] v = "3" -> [raised |-> FALSE, value |-> 3]
    [] v = "4" -> [raised |-> FALSE, value |-> 4]
    [] v = "5" -> [raised |-> FALSE, value |-> 5]
    [] OTHER -> [raised |-> TRUE, value |-> 0]

\* filter_by(date=d, completed=True): a row not completed is not found
FirstLogOnCompleted(rows, d) ==
  IF \E i \in 1..Len(rows) : rows[i].date = d /\ rows[i].completed
  THEN CHOOSE i \in 1..Len(rows) :
         /\ rows[i].date = d /\ rows[i].completed
         /\ \A j \in 1..(i - 1) : ~(rows[j].date = d /\ rows[j].completed)
  ELSE 0

\* TrainingLog.query.filter_by(date=d).first(): index of the row, 0 for None
FirstLogOn(rows, d) ==
  IF \E i \in 1..Len(rows) : rows[i].date = d
  THEN CHOOSE i \in 1..Len(rows) :
         /\ rows[i].date = d
         /\ \A j \in 1..(i - 1) : rows[j].date # d
  ELSE 0

\* the update also rewrites the description, without a plan at hand
UpdateLogResetting(row, completed, notes, difficulty_rating, energy_level, t) ==
  [row EXCEPT !.completed = completed,
              !.completion_time = IF completed THEN {t} ELSE {},
              !.notes = notes,
              !.difficulty_rating = difficulty_rating,
              !.energy_level = energy_level,
              !.workout_description = "Rest day"]

\* completion_time is assigned only when completed is checked
UpdateLogKeepingTime(row, completed, notes, difficulty_rating, energy_level, t) ==
  [row EXCEPT !.completed = completed,
              !.completion_time = IF completed THEN {t} ELSE row.completion_time,
              !.notes = notes,
              !.difficulty_rating = difficulty_rating,
              !.energy_level = energy_level]

\* the "update existing log" branch
UpdateLog(row, completed, notes, difficulty_rating, energy_level, t) ==
  [row EXCEPT !.completed = completed,
              !.completion_time = IF completed THEN {t} ELSE {},
              !.notes = notes,
              !.difficulty_rating = difficulty_rating,
              !.energy_level = energy_level]

\* the "create new log" branch: TrainingLog(...)
NewLog(id, daily_workout, sel, weather_condition, completed, notes, difficulty_rating, energy_level, t) ==
  [id |-> id,
   date |-> DateOf(t),
   workout_type |-> sel.workout_type,
   workout_focus |-> DictGet(daily_workout.focus, "Training"),
   workout_description |-> sel.recommended_workout,
   completed |-> completed,
   completion_time |-> IF completed THEN {t} ELSE {},
   notes |-> notes,
   difficulty_rating |-> difficulty_rating,
   energy_level |-> energy_level,
   weather_condition |-> weather_condition]

\* db.session.commit(): the columns declared nullable=False reject None
CommitAccepts(row) ==
  /\ row.workout_type # Null
  /\ row.workout_focus # Null
  /\ row.workout_description # Null

\* what a log_workout request leaves behind: the flashed category and the
\* weather it read (Absent when get_weather_condition was not called)
LogResp(failed, weather_read) ==
  [NoResp EXCEPT !.route = "log_workout", !.failed = failed,
                 !.weather_read = weather_read]

\* every way get_weather_condition can come back to a handler
WeatherCalls ==
  {get_weather_condition(api_key, outcome) : api_key \in ApiKeys, outcome \in ApiOutcomes}

\* every value get_weather_condition can return to a handler
WeatherReadings == {w.value : w \in {c \in WeatherCalls : ~c.raised}}

\* POST /log_workout of enhanced_routes.py and of professional_routes.py
\* (the two bodies differ only in the photo upload, which no row records)
LogWorkoutPost(form, weather) ==
  LET weather_condition == weather.value
      completed == (form.completed = "on")
      notes == DictGet(form.notes, "")
      difficulty == ParseRating(form.difficulty_rating)
      energy == ParseRating(form.energy_level)
      k == FirstLogOn(logs, DateOf(now))
      dw == get_daily_workout(training_data, now)
      sel == SelectLogged(dw.value, weather_condition)
      row == NewLog(Len(logs) + 1, dw.value, sel, weather_condition, completed, notes,
                    difficulty.value, energy.value, now)
  IN  IF difficulty.raised \/ energy.raised
      THEN /\ resp' = LogResp(TRUE, Absent)
           /\ UNCHANGED logs
      ELSE IF k # 0
      THEN /\ logs' = [logs EXCEPT ![k] = UpdateLog(logs[k], completed, notes,
                                                   difficulty.value, energy.value, now)]
           /\ resp' = LogResp(FALSE, Absent)
      ELSE IF dw.raised \/ weather.raised \/ sel.raised \/ ~CommitAccepts(row)
      THEN /\ resp' = LogResp(TRUE, weather_condition)
           /\ UNCHANGED logs
      ELSE /\ logs' = Append(logs, row)
           /\ resp' = LogResp(FALSE, weather_condition)

log_workout ==
  /\ training_data.loaded
  /\ \E form \in LogForms, weather \in WeatherCalls :
       LogWorkoutPost(form, weather)
  /\ UNCHANGED <<training_data, now, snap, wx, req, messages, records, page>>

(* ----------------------------- /api/weather ---------------------------- *)

NoWeatherCall ==
  [called |-> FALSE, api_key |-> Absent, outcome |-> Absent, raised |-> FALSE,
   returned |-> Absent, condition |-> Absent, error |-> FALSE]

\* api_weather: jsonify({"condition": condition}), and in its except branch
\* jsonify({"condition": "unknown", "error": str(e)}); raised and returned
\* are what get_weather_condition did
WeatherAnswer(api_key, outcome) ==
  LET w == get_weather_condition(api_key, outcome)
  IN  [called |-> TRUE, api_key |-> api_key, outcome |-> outcome,
       raised |-> w.raised,
       returned |-> w.value,
       condition |-> IF w.raised THEN "unknown" ELSE w.value,
       error |-> w.raised]

\* routes.py: @app.route('/api/weather')
api_weather ==
  /\ training_data.loaded
  /\ \E api_key \in ApiKeys, outcome \in ApiOutcomes :
       wx' = WeatherAnswer(api_key, outcome)
  /\ UNCHANGED <<training_data, now, resp, snap, logs, req, messages, records, page>>

(* ------------------------- requests in progress ------------------------ *)

\* the workers that serve requests side by side
Workers == {1, 2}

\* a request's locals; form and today_log are those of a log_workout POST
\* (today_log: index of the row the query returned, 0 for None)
IdleRequest ==
  [pc |-> "idle", today |-> 0, daily_workout |-> NoWorkout, resolve_raised |-> FALSE,
   weather |-> Absent, page |-> NoResp,
   form |-> [completed |-> Absent, notes |-> Absent, difficulty_rating |-> Absent,
             energy_level |-> Absent],
   today_log |-> 0]

\* daily_workout kept in a module global that every worker overwrites
WorkoutOfShared(p) ==
  IF \E q \in Workers \ {p} : req[q].pc # "idle"
  THEN LET q == CHOOSE q \in Workers \ {p} : req[q].pc # "idle"
       IN  [raised |-> req[q].resolve_raised, value |-> req[q].daily_workout]
  ELSE [raised |-> req[p].resolve_raised, value |-> req[p].daily_workout]

\* the local variable daily_workout of worker p's request
WorkoutOf(p) == [raised |-> req[p].resolve_raised, value |-> req[p].daily_workout]

\* index, first part: daily_workout = get_daily_workout(), which reads the
\* clock and the plan; the call of the weather API that follows blocks
IndexResolve(p) ==
  /\ training_data.loaded
  /\ req[p].pc \in {"idle", "done"}
  /\ LET dw == get_daily_workout(training_data, now)
     IN  req' = [req EXCEPT ![p] = [IdleRequest EXCEPT !.pc = "resolved",
                                                       !.today = now,
                                                       !.daily_workout = dw.value,
                                                       !.resolve_raised = dw.raised]]
  /\ UNCHANGED <<training_data, now, resp, snap, logs, wx, messages, records, page>>

\* index, second part: the weather arrives, the workout is selected from
\* the locals and the page is rendered
IndexFinish(p) ==
  /\ req[p].pc = "resolved"
  /\ \E weather \in WeatherCalls :
       req' = [req EXCEPT ![p].pc = "done",
                          ![p].weather = weather.value,
                          ![p].page =
                            IF weather.raised
                            THEN [ErrorPage("index", req[p].today) EXCEPT
                                    !.resolved = WorkoutOf(p).value]
                            ELSE RenderFrom("index", training_data, req[p].today,
                                            WorkoutOf(p), weather.value)]
  /\ UNCHANGED <<training_data, now, resp, snap, logs, wx, messages, records, page>>

\* log_workout POST, first part: the form is parsed and the table is
\* queried for a row of today; the request's session sees the rows that
\* have been committed
LogQuery(p) ==
  /\ training_data.loaded
  /\ req[p].pc \in {"idle", "done"}
  /\ \E form \in LogForms :
       req' = [req EXCEPT ![p] =
                 IF ParseRating(form.difficulty_rating).raised
                    \/ ParseRating(form.energy_level).raised
                 THEN [IdleRequest EXCEPT !.pc = "done", !.page = LogResp(TRUE, Absent)]
                 ELSE [IdleRequest EXCEPT !.pc = "queried", !.today = now, !.form = form,
                                          !.today_log = FirstLogOn(logs, DateOf(now))]]
  /\ UNCHANGED <<training_data, now, resp, snap, logs, wx, messages, records, page>>

\* log_workout POST, second part (the locals die with the request, its
\* flashed message stays): the row found is updated, or a new row
\* is built from the plan, the weather and date.today() and added; then
\* db.session.commit(). No constraint of TrainingLog refuses a second row
\* of a date.
LogCommit(p) ==
  /\ req[p].pc = "queried"
  /\ \E weather \in WeatherCalls :
       LET form == req[p].form
           completed == (form.completed = "on")
           notes == DictGet(form.notes, "")
           difficulty == ParseRating(form.difficulty_rating)
           energy == ParseRating(form.energy_level)
           k == req[p].today_log
           dw == get_daily_workout(training_data, now)
           sel == SelectLogged(dw.value, weather.value)
           row == NewLog(Len(logs) + 1, dw.value, sel, weather.value, completed, notes,
                         difficulty.value, energy.value, now)
       IN  IF k # 0
           THEN /\ logs' = [logs EXCEPT ![k] = UpdateLog(logs[k], completed, notes,
                                                        difficulty.value, energy.value, now)]
                /\ req' = [req EXCEPT ![p] = [IdleRequest EXCEPT
                                               !.pc = "done",
                                               !.page = LogResp(FALSE, Absent)]]
           ELSE IF dw.raised \/ weather.raised \/ sel.raised \/ ~CommitAccepts(row)
           THEN /\ UNCHANGED logs
                /\ req' = [req EXCEPT ![p] = [IdleRequest EXCEPT
                                               !.pc = "done",
                                               !.page = LogResp(TRUE, weather.value)]]
           ELSE /\ logs' = Append(logs, row)
                /\ req' = [req EXCEPT ![p] = [IdleRequest EXCEPT
                                               !.pc = "done",
                                               !.page = LogResp(FALSE, weather.value)]]
  /\ UNCHANGED <<training_data, now, resp, snap, wx, messages, records, page>>

\* no request to the other pages has been answered
NoPage == [route |-> "none"]

(* -------------------------- coach_communication ----------------------- *)

\* request.form of a POST to /coach_communication
MessageForms ==
  {[message |-> "Knee felt sore", category |-> "injury", priority |-> Absent],
   [message |-> "", category |-> Absent, priority |-> "high"],
   [message |-> Absent, category |-> Absent, priority |-> Absent]}

\* CoachMessage(sender=..., message=..., category=..., priority=...):
\* is_read takes the column default False, priority the default 'normal'
NewMessage(id, sender, message, category, priority) ==
  [id |-> id, sender |-> sender, message |-> message, is_read |-> FALSE,
   category |-> category, priority |-> priority]

\* every unread message is marked, whoever sent it
MarkCoachReadAnySender(rows) ==
  [i \in DOMAIN rows |-> [rows[i] EXCEPT !.is_read = TRUE]]

\* for msg in filter_by(sender='coach', is_read=False).all(): msg.is_read = True
MarkCoachRead(rows) ==
  [i \in DOMAIN rows |->
     IF rows[i].sender = "coach" /\ rows[i].is_read = FALSE
     THEN [rows[i] EXCEPT !.is_read = TRUE]
     ELSE rows[i]]

\* the dashboards' CoachMessage.query.filter_by(sender='coach', is_read=False).count()
UnreadMessages(rows) ==
  Cardinality({i \in DOMAIN rows : rows[i].sender = "coach" /\ rows[i].is_read = FALSE})

CoachPage(posted, failed, viewed) ==
  [route |-> "coach_communication", posted |-> posted, failed |-> failed,
   viewed |-> viewed]

\* GET /coach_communication: the messages are read, the coach's unread
\* ones are marked and committed, the page is rendered
coach_communication_get ==
  /\ messages' = MarkCoachRead(messages)
  /\ page' = CoachPage(FALSE, FALSE, TRUE)
  /\ UNCHANGED <<training_data, now, resp, snap, logs, wx, req, records>>

\* POST /coach_communication: a message of sender 'tyler' is added and the
\* browser is redirected; a form without 'message' fails the commit
\* (message is nullable=False), the except flashes, and the handler goes on
\* into the part that shows the page, if the session lets it query after
\* the failed commit (viewed) or else ends in an error
coach_communication_post ==
  /\ Len(messages) < MaxMessages
  /\ \E form \in MessageForms :
       LET row == NewMessage(Len(messages) + 1, "tyler", form.message,
                             DictGet(form.category, "general"),
                             DictGet(form.priority, "normal"))
       IN  IF row.message # Absent
           THEN /\ messages' = Append(messages, row)
                /\ page' = CoachPage(TRUE, FALSE, FALSE)
           ELSE \E viewed \in BOOLEAN :
                  /\ messages' = IF viewed THEN MarkCoachRead(messages) ELSE messages
                  /\ page' = CoachPage(FALSE, TRUE, viewed)
  /\ UNCHANGED <<training_data, now, resp, snap, logs, wx, req, records>>

\* no handler writes a message of sender 'coach': the coach's messages are
\* rows that arrive in the table from outside, unread
CoachWrites ==
  /\ Len(messages) < MaxMessages
  /\ \E priority \in {"normal", "urgent"} :
       messages' = Append(messages, NewMessage(Len(messages) + 1, "coach",
                                               "Drive the trail leg", "technique", priority))
  /\ UNCHANGED <<training_data, now, resp, snap, logs, wx, req, records, page>>

(* --------------------------- personal records ------------------------- *)

\* times are kept in hundredths of a second, dates as the number yyyymmdd

\* stats['high_school'] of get_tyler_current_stats, in the dict's order
HighSchool ==
  <<[event |-> "300m_hurdles", pr |-> 4524, date |-> 20250415,
     meet |-> "District 10 Championship", place |-> "3"],
    [event |-> "110m_hurdles", pr |-> 1895, date |-> 20250422,
     meet |-> "Oil Country Invitational", place |-> "8"],
    [event |-> "60m", pr |-> 819, date |-> 20250118,
     meet |-> "TSTCA Meet #1", place |-> Absent],
    [event |-> "200m", pr |-> 2645, date |-> 20250312,
     meet |-> "Union City Dual", place |-> Absent],
    [event |-> "400m", pr |-> 5876, date |-> 20250408,
     meet |-> "Northwestern Invite", place |-> Absent]>>

\* event.replace('_', ' ').title(): title() also capitalises a letter that
\* follows a digit
TitleOf(event) ==
  CASE event = "300m_hurdles" -> "300M Hurdles"
    [] event = "110m_hurdles" -> "110M Hurdles"
    [] event = "60m" -> "60M"
    [] event = "200m" -> "200M"
    [] event = "400m" -> "400M"

\* request.form of a POST to /personal_records
RecordForms ==
  {[event |-> "300m Hurdles", time |-> "45.24", date |-> "2025-05-01", is_official |-> "on"],
   [event |-> "300m Hurdles", time |-> "0:44.90", date |-> "2025-04-15", is_official |-> Absent],
   [event |-> "300m Hurdles", time |-> "0:45.24", date |-> "2025-04-15", is_official |-> "on"],
   [event |-> "300M Hurdles", time |-> "45.24", date |-> "2025-04-15", is_official |-> Absent],
   [event |-> "200m", time |-> "", date |-> "2025-05-01", is_official |-> Absent],
   [event |-> Absent, time |-> "45.24", date |-> "2025-05-01", is_official |-> Absent],
   [event |-> "200m", time |-> "fast", date |-> "2025-05-01", is_official |-> Absent],
   [event |-> "200m", time |-> "45.24", date |-> Absent, is_official |-> Absent]}

\* datetime.strptime(request.form.get('date', ''), '%Y-%m-%d').date()
ParseDate(date_str) ==
  CASE date_str = "2025-04-15" -> [raised |-> FALSE, value |-> 20250415]
    [] date_str = "2025-05-01" -> [raised |-> FALSE, value |-> 20250501]
    [] OTHER -> [raised |-> TRUE, value |-> 0]

\* float(s) of the strings the forms send
FloatOf(s) ==
  CASE s = "45.24" -> [raised |-> FALSE, value |-> 4524]
    [] s = "44.90" -> [raised |-> FALSE, value |-> 4490]
    [] s = "0" -> [raised |-> FALSE, value |-> 0]
    [] OTHER -> [raised |-> TRUE, value |-> 0]

\* the MM:SS.ss conversion: minutes * 60 + seconds when the string holds
\* a colon, float(time_str) otherwise, 0.0 for an empty or missing string
ParseTime(time_str) ==
  CASE time_str \in {Absent, ""} -> [raised |-> FALSE, value |-> 0]
    [] time_str = "0:44.90" ->
         [raised |-> FloatOf("0").raised \/ FloatOf("44.90").raised,
          value |-> FloatOf("0").value * 60 + FloatOf("44.90").value]
    [] time_str = "0:45.24" ->
         [raised |-> FloatOf("0").raised \/ FloatOf("45.24").raised,
          value |-> FloatOf("0").value * 60 + FloatOf("45.24").value]
    [] OTHER -> FloatOf(time_str)

\* PersonalRecord(...)
NewRecord(id, event, time_seconds, date_achieved, meet_name, is_official, notes) ==
  [id |-> id, event |-> event, time_seconds |-> time_seconds,
   date_achieved |-> date_achieved, meet_name |-> meet_name,
   is_official |-> is_official, notes |-> notes]

\* the event names a row can hold
EventNames ==
  {"300m Hurdles", "300M Hurdles", "200m"} \cup {TitleOf(HighSchool[k].event) : k \in DOMAIN HighSchool}

\* the if of the loop: an event takes the first record seen and keeps it
KeepBestFirstSeen(best, rows, i) ==
  IF best[rows[i].event] = 0
  THEN [best EXCEPT ![rows[i].event] = i]
  ELSE best

\* the if of the loop over records; best maps an event to the row it
\* holds, 0 for an event that is not a key of best_times
KeepBest(best, rows, i) ==
  IF best[rows[i].event] = 0
     \/ rows[i].time_seconds < rows[best[rows[i].event]].time_seconds
  THEN [best EXCEPT ![rows[i].event] = i]
  ELSE best

\* the rows that order_by(date_achieved.desc()) can deliver next: the
\* order among rows of one date is the database's choice
NextByDate(rows, left) ==
  {i \in left : \A j \in left : rows[j].date_achieved <= rows[i].date_achieved}

\* best_times = {} and "for record in records: ...", over every order the
\* query can deliver: after[done] holds what best_times can be when the
\* rows of done have been looped over
BestTimes(rows) ==
  LET after[done \in SUBSET DOMAIN rows] ==
        IF done = {} THEN {[e \in EventNames |-> 0]}
        ELSE UNION {{KeepBest(best, rows, i) : best \in after[done \ {i}]} :
                      i \in {l \in done :
                               l \in NextByDate(rows, (DOMAIN rows \ done) \cup {l})}}
  IN  after[DOMAIN rows]

RecordsPage(posted, failed, viewed, best_times) ==
  [route |-> "personal_records", posted |-> posted, failed |-> failed,
   viewed |-> viewed, best_times |-> best_times]

\* the rows that POSTs added (the sync's notes start with "Imported")
Posted(rows) == {i \in DOMAIN rows : rows[i].notes = ""}

\* GET /personal_records
personal_records_get ==
  /\ \E best_times \in BestTimes(records) :
       page' = RecordsPage(FALSE, FALSE, TRUE, best_times)
  /\ UNCHANGED <<training_data, now, resp, snap, logs, wx, req, messages, records>>

\* POST /personal_records: the record is added and the browser is
\* redirected; a form that does not parse, or a commit that fails (event is
\* nullable=False), flashes an error and goes on into the part that shows
\* the page
personal_records_post ==
  /\ Cardinality(Posted(records)) < MaxRecords
  /\ \E form \in RecordForms :
       LET date_achieved == ParseDate(form.date)
           time_seconds == ParseTime(form.time)
           row == NewRecord(Len(records) + 1, form.event, time_seconds.value,
                            date_achieved.value, "", form.is_official = "on", "")
       IN  IF ~date_achieved.raised /\ ~time_seconds.raised /\ row.event # Absent
           THEN /\ records' = Append(records, row)
                /\ page' = RecordsPage(TRUE, FALSE, FALSE, [e \in EventNames |-> 0])
           ELSE /\ UNCHANGED records
                /\ \E best_times \in BestTimes(records) :
                     page' = RecordsPage(FALSE, TRUE, TRUE, best_times)
  /\ UNCHANGED <<training_data, now, resp, snap, logs, wx, req, messages>>

\* filter_by(event=..., time_seconds=..., is_official=False).first()
ExistingRecordUnofficial(rows, event_name, time_seconds) ==
  \E i \in DOMAIN rows :
    /\ rows[i].event = event_name
    /\ rows[i].time_seconds = time_seconds
    /\ ~rows[i].is_official

\* PersonalRecord.query.filter_by(event=event_name, time_seconds=data['pr']).first()
ExistingRecord(rows, event_name, time_seconds) ==
  \E i \in DOMAIN rows :
    /\ rows[i].event = event_name
    /\ rows[i].time_seconds = time_seconds

RECURSIVE SyncFrom(_, _)
\* the loop of sync_to_database from the k-th event on: a record is added
\* for each event that has none with its name and time
SyncFrom(rows, k) ==
  IF k > Len(HighSchool) THEN rows
  ELSE LET data == HighSchool[k]
           event_name == TitleOf(data.event)
       IN  IF ExistingRecord(rows, event_name, data.pr)
           THEN SyncFrom(rows, k + 1)
           ELSE SyncFrom(Append(rows,
                           NewRecord(Len(rows) + 1, event_name, data.pr, data.date,
                                     data.meet, TRUE,
                                     IF data.place = Absent
                                     THEN "Imported from Athletic.net - Place: N/A"
                                     ELSE "Imported from Athletic.net - Place: 3/8")),
                         k + 1)

\* the server starts: professional_routes.py runs sync_to_database at
\* import; added is the number of records the commit wrote
sync_to_database ==
  /\ records' = SyncFrom(records, 1)
  /\ page' = [route |-> "startup", added |-> Len(records') - Len(records)]
  /\ UNCHANGED <<training_data, now, resp, snap, logs, wx, req, messages>>

(* --------------------------- endurance workouts ----------------------- *)

\* self.training_phases: the flags _adjust_workout_for_phase reads
\* (phase_config.get of a flag the phase does not have is None)
TrainingPhases ==
  [base_building |-> [volume_high |-> TRUE, volume_low |-> FALSE,
                      intensity_very_high |-> FALSE, intensity_moderate |-> TRUE],
   build_phase |-> [volume_high |-> FALSE, volume_low |-> FALSE,
                    intensity_very_high |-> FALSE, intensity_moderate |-> FALSE],
   peak_phase |-> [volume_high |-> FALSE, volume_low |-> TRUE,
                   intensity_very_high |-> TRUE, intensity_moderate |-> FALSE],
   taper_competition |-> [volume_high |-> FALSE, volume_low |-> FALSE,
                          intensity_very_high |-> FALSE, intensity_moderate |-> TRUE]]

\* self.training_phases.get(phase, self.training_phases['build_phase'])
PhaseConfig(phase) ==
  IF phase \in DOMAIN TrainingPhases THEN TrainingPhases[phase]
  ELSE TrainingPhases["build_phase"]

\* the dict workouts, keyed by the day of the cycle: what the seven
\* _generate_*_workout methods return, in the fields that are adjusted
Workouts ==
  [d \in 0..6 |->
     CASE d = 0 -> [workout_type |-> "Tempo Run", intensity_level |-> 7,
                    estimated_duration |-> 45]
       [] d = 1 -> [workout_type |-> "Lactate Threshold Intervals", intensity_level |-> 8,
                    estimated_duration |-> 65]
       [] d = 2 -> [workout_type |-> "Active Recovery", intensity_level |-> 3,
                    estimated_duration |-> 50]
       [] d = 3 -> [workout_type |-> "Speed Endurance", intensity_level |-> 9,
                    estimated_duration |-> 70]
       [] d = 4 -> [workout_type |-> "Aerobic Capacity Development", intensity_level |-> 8,
                    estimated_duration |-> 55]
       [] d = 5 -> [workout_type |-> "Aerobic Base Run", intensity_level |-> 5,
                    estimated_duration |-> 65]
       [] d = 6 -> [workout_type |-> "Active Recovery Day", intensity_level |-> 2,
                    estimated_duration |-> 45]]

\* _generate_default_workout
DefaultEnduranceWorkout ==
  [workout_type |-> "General Endurance", intensity_level |-> 4, estimated_duration |-> 45]

Min(a, b) == IF a < b THEN a ELSE b

Max(a, b) == IF a > b THEN a ELSE b

\* _adjust_workout_for_phase; int(x * 1.15) and int(x * 0.85) truncate,
\* and no duration times 115 or 85 is within rounding of a multiple of 100
AdjustWorkoutForPhase(workout, phase_config) ==
  [workout EXCEPT
     !.estimated_duration =
        IF phase_config.volume_high THEN (workout.estimated_duration * 115) \div 100
        ELSE IF phase_config.volume_low THEN (workout.estimated_duration * 85) \div 100
        ELSE workout.estimated_duration,
     !.intensity_level =
        IF phase_config.intensity_very_high THEN Min(10, workout.intensity_level + 1)
        ELSE IF phase_config.intensity_moderate THEN Max(1, workout.intensity_level - 1)
        ELSE workout.intensity_level]

\* day_in_cycle = (training_day - 1) % 7: day 1 opens the cycle
get_daily_endurance_workout_from_one(training_day, phase) ==
  LET day_in_cycle == PyMod(training_day - 1, 7)
  IN  IF day_in_cycle \in DOMAIN Workouts
      THEN AdjustWorkoutForPhase(Workouts[day_in_cycle], PhaseConfig(phase))
      ELSE DefaultEnduranceWorkout

\* get_daily_endurance_workout: workouts[day_in_cycle] raises KeyError for
\* a key outside 0..6, and the except returns the default workout
get_daily_endurance_workout(training_day, phase) ==
  LET day_in_cycle == PyMod(training_day, 7)
  IN  IF day_in_cycle \in DOMAIN Workouts
      THEN AdjustWorkoutForPhase(Workouts[day_in_cycle], PhaseConfig(phase))
      ELSE DefaultEnduranceWorkout

\* request.args of /api/endurance-workout: day and weeks are absent, a
\* number in text, or text that int() refuses
DayArgs ==
  {[kind |-> "absent", value |-> 0], [kind |-> "text", value |-> 0]}
  \cup {[kind |-> "int", value |-> n] : n \in (-MaxTrainingDay)..MaxTrainingDay}

PhaseArgs ==
  {Absent, "base_building", "build_phase", "peak_phase", "taper_competition", "off_season"}

\* int(request.args.get(name, default))
IntArg(arg, default) ==
  CASE arg.kind = "absent" -> [raised |-> FALSE, value |-> default]
    [] arg.kind = "int" -> [raised |-> FALSE, value |-> arg.value]
    [] OTHER -> [raised |-> TRUE, value |-> 0]

\* GET /api/endurance-workout: the JSON answered, or the error with 500
api_endurance_workout ==
  /\ \E day \in DayArgs, phase_arg \in PhaseArgs, weeks \in {"absent", "text"} :
       LET training_day == IntArg(day, 1)
           phase == DictGet(phase_arg, "build_phase")
       IN  page' =
             IF training_day.raised \/ weeks = "text"
             THEN [route |-> "api_endurance_workout", failed |-> TRUE,
                   training_day |-> 0, workout |-> DefaultEnduranceWorkout,
                   training_phase |-> Absent, day_in_cycle |-> 0]
             ELSE [route |-> "api_endurance_workout", failed |-> FALSE,
                   training_day |-> training_day.value,
                   workout |-> get_daily_endurance_workout(training_day.value, phase),
                   training_phase |-> phase,
                   day_in_cycle |-> PyMod(training_day.value, 7)]
  /\ UNCHANGED <<training_data, now, resp, snap, logs, wx, req, messages, records>>

Init ==
  /\ \E file \in PlanFiles : training_data = LoadTrainingData(file)
  /\ now \in MinNow..MaxNow
  /\ resp = NoResp
  /\ snap = [seen |-> NoResp, later |-> FALSE]
  /\ logs = <<>>
  /\ wx = NoWeatherCall
  /\ req = [p \in Workers |-> IdleRequest]
  /\ messages = <<>>
  /\ records = <<>>
  /\ page = NoPage

\* the wall clock advances
Tick ==
  /\ now < MaxNow
  /\ now' = now + 1
  /\ UNCHANGED <<training_data, resp, snap, logs, wx, req, messages, records, page>>

\* daily_workout.pop('outdoor_workout', ...) in place of .get: the handler
\* takes the key out of the DayPlan that the loaded plan holds
RequestConsuming(route) ==
  /\ training_data.loaded
  /\ \E weather \in WeatherCalls :
       resp' = IF weather.raised
               THEN [ErrorPage(route, now) EXCEPT
                       !.resolved = get_daily_workout(training_data, now).value]
               ELSE RenderDashboard(route, training_data, now, weather.value)
  /\ training_data' =
       [training_data EXCEPT !.daily_workouts =
          [i \in DOMAIN training_data.daily_workouts |->
             IF training_data.daily_workouts[i] = resp'.resolved /\ resp'.resolved.isdict
             THEN [training_data.daily_workouts[i] EXCEPT !.outdoor_workout = Absent]
             ELSE training_data.daily_workouts[i]]]
  /\ snap' = IF snap.seen.route # "none" /\ resp' # snap.seen
             THEN [snap EXCEPT !.later = TRUE]
             ELSE snap
  /\ UNCHANGED <<now, logs, wx, req, messages, records, page>>

Request(route) ==
  /\ training_data.loaded
  /\ \E weather \in WeatherCalls :
       resp' = IF weather.raised
               THEN [ErrorPage(route, now) EXCEPT
                       !.resolved = get_daily_workout(training_data, now).value]
               ELSE RenderDashboard(route, training_data, now, weather.value)
  /\ snap' = IF snap.seen.route # "none" /\ resp' # snap.seen
             THEN [snap EXCEPT !.later = TRUE]
             ELSE snap
  /\ UNCHANGED <<training_data, now, logs, wx, req, messages, records, page>>

\* routes.py: @app.route('/')
index == Request("index")

\* enhanced_routes.py: @app.route('/')
dashboard == Request("dashboard")

\* professional_routes.py: @app.route('/professional'), @app.route('/')
professional_dashboard == Request("professional_dashboard")

\* an observer keeps the response of some earlier request; later records
\* that a request with another outcome has been served since
Remember ==
  /\ resp.route # "none"
  /\ snap.seen # resp
  /\ snap' = [seen |-> resp, later |-> FALSE]
  /\ UNCHANGED <<training_data, now, resp, logs, wx, req, messages, records, page>>

Next ==
  \/ Tick
  \/ index
  \/ dashboard
  \/ professional_dashboard

Spec == Init /\ [][Next]_vars

\* two runs are compared on plans that load and resolve
InitDet ==
  /\ Init
  /\ training_data.dw_kind = "list"
  /\ Len(training_data.daily_workouts) > 0

NextDet ==
  \/ Tick
  \/ index
  \/ Remember

SpecDet == InitDet /\ [][NextDet]_vars

\* requests side by side are followed over the last LogDays days of the
\* clock's range, on the plans that load
InitConc ==
  /\ Init
  /\ training_data.loaded
  /\ now >= MaxNow - (LogDays * SlotsPerDay - 1)

NextConc ==
  \/ Tick
  \/ \E p \in Workers : IndexResolve(p)
  \/ \E p \in Workers : IndexFinish(p)

SpecConc == InitConc /\ [][NextConc]_vars

\* two log_workout POSTs side by side, followed over the last day of the
\* clock's range
InitLogConc ==
  /\ Init
  /\ training_data.loaded
  /\ now >= MaxNow - (SlotsPerDay - 1)

NextLogConc ==
  \/ Tick
  \/ \E p \in Workers : LogQuery(p)
  \/ \E p \in Workers : LogCommit(p)

SpecLogConc == InitLogConc /\ [][NextLogConc]_vars

\* the pages that read neither the plan nor the clock are followed from
\* one plan and one instant
InitPages ==
  /\ Init
  /\ training_data = LoadTrainingData([kind |-> "plan", n |-> 1, k |-> 0])
  /\ now = 0

NextMsg ==
  \/ coach_communication_get
  \/ coach_communication_post
  \/ CoachWrites

SpecMsg == InitPages /\ [][NextMsg]_vars

NextRecords ==
  \/ personal_records_get
  \/ personal_records_post
  \/ sync_to_database

SpecRecords == InitPages /\ [][NextRecords]_vars

NextEndurance == api_endurance_workout

SpecEndurance == InitPages /\ [][NextEndurance]_vars

NextWeather ==
  \/ Tick
  \/ api_weather

SpecWeather == Init /\ [][NextWeather]_vars

NextLog ==
  \/ Tick
  \/ log_workout

\* the table is followed over the last LogDays days of the clock's range
InitLog ==
  /\ Init
  /\ now >= MaxNow - (LogDays * SlotsPerDay - 1)

SpecLog == InitLog /\ [][NextLog]_vars

(* ------------------------------ properties ----------------------------- *)

DashboardRoutes == {"index", "dashboard", "professional_dashboard"}

\* the plan the scheduler cycles through, and its length N
Plan == training_data.daily_workouts

PlanLen == Len(training_data.daily_workouts)

NonEmptyPlan ==
  /\ training_data.loaded
  /\ training_data.isdict
  /\ training_data.dw_kind = "list"
  /\ PlanLen > 0

\* whole calendar days from the start date to the day the instant t lies in
ElapsedDays(t) ==
  CHOOSE d \in (-MaxDays - 1)..(MaxDays + 1) :
    d * SlotsPerDay <= t /\ t < (d + 1) * SlotsPerDay

\* r is d mod n, floor modulo: 0 <= r < n and d - r is a multiple of n
IsFloorMod(r, d, n) ==
  /\ 0 <= r
  /\ r < n
  /\ \E q \in (-MaxDays - 1)..(MaxDays + 1) : d = q * n + r

GoodWeather(w) == w \in {"clear", "partly_cloudy"}

Empty(v) == v \in {Absent, Null}

\* a dashboard response whose selection ran to the end
Selected(r) == r.route \in DashboardRoutes /\ ~r.failed

PreferredField(r) ==
  IF GoodWeather(r.weather_read) THEN r.resolved.outdoor_workout
  ELSE r.resolved.indoor_workout

OtherField(r) ==
  IF GoodWeather(r.weather_read) THEN r.resolved.indoor_workout
  ELSE r.resolved.outdoor_workout

PreferredType(r) == IF GoodWeather(r.weather_read) THEN "outdoor" ELSE "indoor"

\* C1: for a non-empty plan of length N and today d days from the start
\* date, every dashboard resolves exactly the entry number d mod N (floor
\* modulo) of the plan.
C1_ResolvesPlanAtFloorMod ==
  (resp.route \in DashboardRoutes /\ NonEmptyPlan) =>
    \E r \in 0..(PlanLen - 1) :
      /\ IsFloorMod(r, ElapsedDays(resp.today), PlanLen)
      /\ resp.resolved = Plan[r + 1]

C1_Witness ==
  /\ resp.route \in DashboardRoutes
  /\ NonEmptyPlan
  /\ PlanLen = MaxPlanLen
  /\ ElapsedDays(resp.today) = -2
  /\ resp.today % SlotsPerDay # 0
  /\ resp.resolved = Plan[PlanLen - 1]

\* C2: resolution is periodic with period N: the entries resolved on two
\* days that lie N days apart are the same, also for days before the start.
C2_PeriodicWithPeriodN ==
  (/\ snap.seen.route = "index"
   /\ resp.route = "index"
   /\ ElapsedDays(resp.today) = ElapsedDays(snap.seen.today) + PlanLen)
  => resp.resolved = snap.seen.resolved

C2_Witness ==
  /\ snap.seen.route = "index"
  /\ resp.route = "index"
  /\ PlanLen = MaxPlanLen
  /\ ElapsedDays(snap.seen.today) = -1
  /\ ElapsedDays(resp.today) = ElapsedDays(snap.seen.today) + PlanLen
  /\ resp.resolved = snap.seen.resolved

\* C3: when today precedes the start date, the resolved entry is still an
\* entry of the plan (the index lies in 0..N-1 and nothing raises); one day
\* before the start resolves to the last entry, N days before to the first.
C3_NegativeDaysStayInRange ==
  (/\ resp.route \in DashboardRoutes
   /\ NonEmptyPlan
   /\ ElapsedDays(resp.today) < 0)
  => /\ \E i \in 1..PlanLen : resp.resolved = Plan[i]
     /\ resp.resolved # DefaultWorkout
     /\ ElapsedDays(resp.today) = -1 => resp.resolved = Plan[PlanLen]
     /\ ElapsedDays(resp.today) = -PlanLen => resp.resolved = Plan[1]

C3_Witness ==
  /\ resp.route \in DashboardRoutes
  /\ NonEmptyPlan
  /\ PlanLen > 1
  /\ ElapsedDays(resp.today) = -PlanLen
  /\ resp.resolved = Plan[1]

\* C4: clear or partly_cloudy weather prefers the outdoor_workout field,
\* any other weather the indoor_workout field; a missing preferred field
\* gives the other field's text; with both missing the text is "Rest day"
\* and the type is the one the weather prefers.
C4_SelectionOrder ==
  Selected(resp) =>
    /\ PreferredField(resp) # Absent => resp.recommended_workout = PreferredField(resp)
    /\ (PreferredField(resp) = Absent /\ OtherField(resp) # Absent)
         => resp.recommended_workout = OtherField(resp)
    /\ (PreferredField(resp) = Absent /\ OtherField(resp) = Absent)
         => /\ resp.recommended_workout = "Rest day"
            /\ resp.workout_type = PreferredType(resp)

C4_Witness ==
  /\ Selected(resp)
  /\ GoodWeather(resp.weather_read)
  /\ resp.resolved.outdoor_workout = Absent
  /\ resp.resolved.indoor_workout = IndoorText
  /\ resp.recommended_workout = IndoorText

\* C5 as stated: the type is "outdoor" exactly when the weather is clear or
\* partly_cloudy and the DayPlan has a non-empty outdoor field.
C5_OutdoorNeedsOutdoorField ==
  Selected(resp) =>
    (resp.workout_type = "outdoor"
       <=> (GoodWeather(resp.weather_read) /\ ~Empty(resp.resolved.outdoor_workout)))

\* C5 as amended: whenever the selection runs, the type is "outdoor" exactly
\* when the weather is clear or partly_cloudy, whatever fields the DayPlan
\* has; the type names the weather's preference, not the field used.
C5_OutdoorIffGoodWeather ==
  Selected(resp) =>
    /\ resp.workout_type \in {"outdoor", "indoor"}
    /\ resp.workout_type = "outdoor" <=> GoodWeather(resp.weather_read)

C5_Witness ==
  /\ Selected(resp)
  /\ GoodWeather(resp.weather_read)
  /\ resp.resolved.outdoor_workout = Absent
  /\ resp.workout_type = "outdoor"

\* the DayPlan that get_daily_workout resolves on the day a row was created
ResolvedOn(date) == get_daily_workout(training_data, date * SlotsPerDay).value

\* C6: "Rest day" is the workout text only when both the outdoor and the
\* indoor field of the resolved DayPlan are empty, on the dashboards and
\* in the rows that log_workout stores.
C6_RestDayOnlyWhenBothEmpty ==
  /\ (Selected(resp) /\ resp.recommended_workout = "Rest day")
       => (Empty(resp.resolved.outdoor_workout) /\ Empty(resp.resolved.indoor_workout))
  /\ \A i \in 1..Len(logs) :
       logs[i].workout_description = "Rest day"
         => /\ Empty(ResolvedOn(logs[i].date).outdoor_workout)
            /\ Empty(ResolvedOn(logs[i].date).indoor_workout)

\* C7: a field that is present but null counts as absent: with weather that
\* prefers indoor, a null indoor field and an outdoor text, the result is
\* the outdoor text with type "indoor", and the text is never null.
C7_NullFieldFallsBack ==
  Selected(resp) =>
    /\ resp.recommended_workout # Null
    /\ (/\ ~GoodWeather(resp.weather_read)
        /\ resp.resolved.indoor_workout = Null
        /\ ~Empty(resp.resolved.outdoor_workout))
       => /\ resp.recommended_workout = resp.resolved.outdoor_workout
          /\ resp.workout_type = "indoor"

EmptyPlan ==
  /\ training_data.loaded
  /\ training_data.isdict
  /\ training_data.dw_kind = "list"
  /\ PlanLen = 0

\* C8: with an empty plan the resolution does not raise to the dashboard
\* and yields the default DayPlan: focus "Recovery", outdoor "Light jog and
\* stretching", indoor "Mobility and flexibility routine".
C8_EmptyPlanYieldsDefault ==
  (resp.route \in DashboardRoutes /\ EmptyPlan) =>
    /\ ~resp.failed
    /\ resp.resolved.focus = "Recovery"
    /\ resp.resolved.outdoor_workout = "Light jog and stretching"
    /\ resp.resolved.indoor_workout = "Mobility and flexibility routine"
    /\ resp.daily_workout = resp.resolved

C8_Witness ==
  /\ resp.route \in DashboardRoutes
  /\ EmptyPlan
  /\ resp.daily_workout.focus = "Recovery"
  /\ resp.recommended_workout = "Mobility and flexibility routine"

\* the plan could not be loaded or parsed into a list of DayPlan dicts
PlanFailure ==
  \/ ~training_data.loaded
  \/ ~training_data.isdict
  \/ training_data.dw_kind # "list"
  \/ \E i \in 1..PlanLen : ~Plan[i].isdict

\* C9: every failure to load or parse the plan (missing or invalid file,
\* missing daily_workouts key, malformed entries) is absorbed: nothing is
\* raised, and the dashboard serves the default DayPlan, not an error page.
C9_PlanFailureServesDefault ==
  /\ training_data.loaded
  /\ (resp.route \in DashboardRoutes /\ PlanFailure)
       => /\ ~resp.failed
          /\ resp.daily_workout = DefaultWorkout

\* C10: two runs of index with the same today and the same weather, on the
\* same plan, give the same text and type, whatever was served in between.
C10_SameInputsSameOutputs ==
  (/\ snap.seen.route = "index"
   /\ resp.route = "index"
   /\ resp.today = snap.seen.today
   /\ resp.weather_read = snap.seen.weather_read)
  => /\ resp.recommended_workout = snap.seen.recommended_workout
     /\ resp.workout_type = snap.seen.workout_type

C10_Witness ==
  /\ snap.seen.route = "index"
  /\ resp.route = "index"
  /\ snap.later
  /\ resp.today = snap.seen.today
  /\ resp.weather_read = snap.seen.weather_read
  /\ ~resp.failed
  /\ resp.recommended_workout = snap.seen.recommended_workout

\* the tags of the indoor-preferred branch other than "unknown"
IndoorTags == {"cloudy", "rain", "snow"}

\* a is a response to weather "unknown", b one to an indoor tag, same day
UnknownBesideIndoor(a, b) ==
  /\ a.route = "index"
  /\ b.route = "index"
  /\ a.today = b.today
  /\ a.weather_read = "unknown"
  /\ b.weather_read \in IndoorTags

\* a and b show the same outcome; an unfailed a has type "indoor"
SameAsIndoor(a, b) ==
  /\ a.failed = b.failed
  /\ a.recommended_workout = b.recommended_workout
  /\ a.workout_type = b.workout_type
  /\ a.resolved.isdict => (~a.failed /\ a.workout_type = "indoor")

\* C11: weather "unknown" is handled exactly like the indoor-preferred
\* branch: on the same DayPlan the text and type equal those for rain, snow
\* and cloudy, and the selection does not fail because of the weather.
C11_UnknownLikeIndoor ==
  /\ UnknownBesideIndoor(snap.seen, resp) => SameAsIndoor(snap.seen, resp)
  /\ UnknownBesideIndoor(resp, snap.seen) => SameAsIndoor(resp, snap.seen)

C11_Witness ==
  /\ UnknownBesideIndoor(snap.seen, resp)
  /\ ~resp.failed
  /\ resp.resolved.indoor_workout = Absent
  /\ snap.seen.recommended_workout = OutdoorText
  /\ snap.seen.workout_type = "indoor"

WeatherTags == {"clear", "partly_cloudy", "cloudy", "rain", "snow", "unknown"}

\* the request failed, or the response lacks the fields read from it
WeatherFailures ==
  {"timeout", "http_error", "invalid_json", "no_weather_key", "empty_weather_list",
   "main_not_str"}

\* C12: get_weather_condition never raises, and on every network failure
\* and every failure to parse the response it returns "unknown".
C12_WeatherDegradesToUnknown ==
  wx.called =>
    /\ ~wx.raised
    /\ ~wx.error
    /\ (wx.api_key # "demo_key" /\ wx.outcome \in WeatherFailures)
         => (wx.returned = "unknown" /\ wx.condition = "unknown")

C12_Witness ==
  /\ wx.called
  /\ wx.api_key = "real_key"
  /\ wx.outcome = "empty_weather_list"
  /\ wx.returned = "unknown"
  /\ ~wx.error

\* C13: whatever the API key and the API's response, the value that
\* get_weather_condition returns is one of the six weather tags.
C13_WeatherIsATag ==
  wx.called => (wx.returned \in WeatherTags /\ wx.condition \in WeatherTags)

C13_Witness ==
  /\ wx.called
  /\ wx.api_key = "real_key"
  /\ wx.outcome = "Tornado"
  /\ wx.returned = "cloudy"

\* C14: resolving a day-plan and selecting a workout leave the loaded plan
\* and every DayPlan in it as they were, however many requests are served.
C14_PlanUnchanged == [][training_data' = training_data]_vars

C14_Witness ==
  /\ resp.route \in DashboardRoutes
  /\ NonEmptyPlan
  /\ ~resp.failed
  /\ resp.daily_workout = Plan[PlanLen]
  /\ resp.recommended_workout \in {OutdoorText, IndoorText}

\* C15: requests served side by side without synchronization: under every
\* interleaving each finished request shows the page it would show if it
\* ran alone with the clock reading and the weather it read.
C15_InterleavingsGiveTheAloneResult ==
  \A p \in Workers :
    req[p].pc = "done" =>
      req[p].page = RenderDashboard("index", training_data, req[p].today, req[p].weather)

C15_Witness ==
  /\ req[1].pc = "done"
  /\ req[2].pc = "resolved"
  /\ NonEmptyPlan
  /\ req[2].today > req[1].today
  /\ req[2].daily_workout # req[1].daily_workout
  /\ ~req[1].page.failed
  /\ req[1].page.resolved = req[1].daily_workout

\* C16: elapsed days are counted in calendar days: two instants of the
\* same calendar day resolve to the same DayPlan, whatever the time of day,
\* also on days before the start date.
C16_SameDaySamePlan ==
  (/\ snap.seen.route = "index"
   /\ resp.route = "index"
   /\ ElapsedDays(resp.today) = ElapsedDays(snap.seen.today))
  => /\ resp.resolved = snap.seen.resolved
     /\ resp.daily_workout = snap.seen.daily_workout

C16_Witness ==
  /\ snap.seen.route = "index"
  /\ resp.route = "index"
  /\ ElapsedDays(resp.today) = ElapsedDays(snap.seen.today)
  /\ ElapsedDays(resp.today) < 0
  /\ resp.today > snap.seen.today
  /\ resp.resolved = snap.seen.resolved

\* C17: every dashboard response carries the workout type "outdoor" or
\* "indoor", whatever plan resolution and the weather service yield; no
\* other type tag is emitted.
C17_TypeIsOutdoorOrIndoor ==
  resp.route \in DashboardRoutes => resp.workout_type \in {"outdoor", "indoor"}

\* C18: day zero maps to the first entry: with today on the start date,
\* every non-empty plan resolves to plan[0].
C18_DayZeroIsFirstEntry ==
  (/\ resp.route \in DashboardRoutes
   /\ NonEmptyPlan
   /\ ElapsedDays(resp.today) = 0)
  => resp.resolved = Plan[1]

C18_Witness ==
  /\ resp.route \in DashboardRoutes
  /\ NonEmptyPlan
  /\ PlanLen = MaxPlanLen
  /\ resp.today = 0
  /\ resp.resolved = Plan[1]

\* C19 as stated: the index lies in the half-open range [0, len(plan)-1),
\* so the resolved entry is never the last one of the plan.
C19_IndexBelowLastIndex ==
  (resp.route \in DashboardRoutes /\ NonEmptyPlan) =>
    \E i \in 0..(PlanLen - 2) : resp.resolved = Plan[i + 1]

\* C19 as amended: the index lies in the half-open range [0, len(plan)),
\* that is in 0..len(plan)-1, on every day: the resolved entry is an entry
\* of the plan, the last one included.
C19_IndexInPlanRange ==
  (resp.route \in DashboardRoutes /\ NonEmptyPlan) =>
    \E i \in 0..(PlanLen - 1) : resp.resolved = Plan[i + 1]

C19_Witness ==
  /\ resp.route \in DashboardRoutes
  /\ NonEmptyPlan
  /\ PlanLen > 1
  /\ ElapsedDays(resp.today) > 0
  /\ resp.resolved = Plan[PlanLen]

\* the entry resolved at the start of day d
ResolvedOnDay(d) == get_daily_workout(training_data, d * SlotsPerDay).value

\* C20: when the calendar day advances by one, the resolved index advances
\* by one modulo N; hence N consecutive days select every entry of the
\* plan exactly once.
C20_AdvancesByOnePerDay ==
  /\ (/\ snap.seen.route = "index"
      /\ resp.route = "index"
      /\ ElapsedDays(resp.today) = ElapsedDays(snap.seen.today) + 1)
     => \E i \in 1..PlanLen :
          /\ snap.seen.resolved = Plan[i]
          /\ resp.resolved = Plan[(i % PlanLen) + 1]
  /\ \A i \in 1..PlanLen :
       Cardinality({j \in 0..(PlanLen - 1) :
                      ResolvedOnDay(ElapsedDays(now) + j) = Plan[i]}) = 1

C20_Witness ==
  /\ snap.seen.route = "index"
  /\ resp.route = "index"
  /\ PlanLen = MaxPlanLen
  /\ ElapsedDays(snap.seen.today) = -1
  /\ ElapsedDays(resp.today) = 0
  /\ snap.seen.resolved = Plan[PlanLen]
  /\ resp.resolved = Plan[1]

\* the rows of the TrainingLog table
Rows == 1..Len(logs)

\* the text a dashboard shows for the DayPlan and the weather of a row
ShownFor(row) == SelectWorkout(ResolvedOn(row.date), row.weather_condition)

\* the last request was a log_workout POST that took the update branch
UpdatedLog ==
  /\ resp.route = "log_workout"
  /\ ~resp.failed
  /\ resp.weather_read = Absent

\* C21: for the same DayPlan and the same weather, the description that
\* log_workout stores in a new TrainingLog is the recommended workout text
\* the dashboard shows.
C21_LoggedTextIsShownText ==
  \A i \in Rows : logs[i].workout_description = ShownFor(logs[i]).recommended_workout

\* C22: with log_workout POSTs served one at a time there is at most one
\* TrainingLog per date: a POST on a date that has a log updates it.
C22_OneLogPerDate ==
  /\ \A d \in DateOf(MinNow)..DateOf(MaxNow) :
       Cardinality({i \in Rows : logs[i].date = d}) <= 1
  /\ \A i \in Rows : logs[i].date <= DateOf(now)

C22_Witness ==
  /\ UpdatedLog
  /\ Len(logs) = 1
  /\ logs[1].date = DateOf(now)
  /\ logs[1].completion_time = {now}
  /\ now % SlotsPerDay # 0
  /\ C22_OneLogPerDate

\* C24: a log_workout POST on a date that has a TrainingLog changes only
\* completed, completion_time, notes, difficulty_rating and energy_level of
\* that row: date, workout_type, workout_focus, workout_description and
\* weather_condition of every row stay as first recorded, and no row is added.
C24_UpdateKeepsTheRecordedWorkout ==
  [][FirstLogOn(logs, DateOf(now)) # 0 =>
       /\ Len(logs') = Len(logs)
       /\ \A i \in Rows :
            /\ logs'[i].id = logs[i].id
            /\ logs'[i].date = logs[i].date
            /\ logs'[i].workout_type = logs[i].workout_type
            /\ logs'[i].workout_focus = logs[i].workout_focus
            /\ logs'[i].workout_description = logs[i].workout_description
            /\ logs'[i].weather_condition = logs[i].weather_condition
            /\ (i # FirstLogOn(logs, DateOf(now)) => logs'[i] = logs[i])]_vars

C24_Witness ==
  /\ UpdatedLog
  /\ \E i \in Rows :
       /\ logs[i].date = DateOf(now)
       /\ ~logs[i].completed
       /\ logs[i].notes = ""
       /\ logs[i].workout_type = "outdoor"
       /\ logs[i].workout_description = OutdoorText
       /\ logs[i].weather_condition = "partly_cloudy"

\* C25: in every TrainingLog completion_time is set if and only if
\* completed is true; a later POST that un-checks completed clears it.
C25_CompletionTimeIffCompleted ==
  \A i \in Rows : (logs[i].completion_time # {}) <=> logs[i].completed

C25_Witness ==
  /\ UpdatedLog
  /\ Len(logs) = 2
  /\ logs[1].completed /\ logs[1].completion_time # {}
  /\ ~logs[2].completed /\ logs[2].completion_time = {}
  /\ logs[2].date = DateOf(now)

\* C26: every TrainingLog has workout_type "outdoor" if and only if its
\* stored weather_condition is clear or partly_cloudy, and "indoor"
\* otherwise, in every state of the table.
C26_LoggedTypeFollowsLoggedWeather ==
  \A i \in Rows :
    /\ logs[i].workout_type \in {"outdoor", "indoor"}
    /\ logs[i].workout_type = "outdoor"
         <=> logs[i].weather_condition \in {"clear", "partly_cloudy"}

C26_Witness ==
  /\ Len(logs) = 2
  /\ logs[1].workout_type = "outdoor" /\ logs[1].weather_condition = "partly_cloudy"
  /\ logs[2].workout_type = "indoor" /\ logs[2].weather_condition = "unknown"

\* C23: under every interleaving of two concurrent log_workout POSTs on a
\* date without a log, at most one TrainingLog of that date exists
\* afterwards.
C23_OneLogPerDateUnderRace ==
  \A i \in Rows : \A j \in Rows : logs[i].date = logs[j].date => i = j

\* the messages that 'tyler' sent
FromTyler(rows) == {i \in DOMAIN rows : rows[i].sender = "tyler"}

\* C27: when a view of the coach_communication page completes, no message
\* of sender 'coach' has is_read false, so the dashboards' unread count is 0;
\* only a message arriving from the coach raises the count again; and
\* viewing never changes is_read of the messages 'tyler' sent.
C27_ViewMarksCoachMessagesOnly ==
  [][/\ (Len(messages') = Len(messages) /\ page'.route = "coach_communication"
           /\ page'.viewed)
        => UnreadMessages(messages') = 0
     /\ (Len(messages') = Len(messages) \/ messages'[Len(messages')].sender = "tyler")
        => UnreadMessages(messages') <= UnreadMessages(messages)
     /\ \A i \in FromTyler(messages) : messages'[i] = messages[i]]_vars

C27_Witness ==
  /\ page.route = "coach_communication"
  /\ page.viewed
  /\ UnreadMessages(messages) = 0
  /\ \E i \in DOMAIN messages : messages[i].sender = "coach" /\ messages[i].is_read
  /\ \E i \in DOMAIN messages : messages[i].sender = "tyler" /\ ~messages[i].is_read

\* the rows that hold the name and the time of the k-th imported event
RowsOfImport(rows, k) ==
  {i \in DOMAIN rows : /\ rows[i].event = TitleOf(HighSchool[k].event)
                       /\ rows[i].time_seconds = HighSchool[k].pr}

\* every imported (event, time) pair has a record
Synced(rows) == \A k \in DOMAIN HighSchool : RowsOfImport(rows, k) # {}

\* C28: sync_to_database is idempotent: run on a database that has been
\* synced it adds no PersonalRecord, so however often the server restarts
\* each imported (event, time) pair has one record written by the sync, and
\* after a sync every pair has a record.
C28_SyncIsIdempotent ==
  /\ [](/\ page.route = "startup" => Synced(records)
        /\ \A k \in DOMAIN HighSchool :
             Cardinality(RowsOfImport(records, k) \ Posted(records)) <= 1)
  /\ [][(page'.route = "startup" /\ Synced(records)) => records' = records]_vars

C28_Witness ==
  /\ page.route = "startup"
  /\ page.added = 0
  /\ Synced(records)
  /\ Len(records) = Len(HighSchool) + 1
  /\ \A k \in DOMAIN HighSchool : Cardinality(RowsOfImport(records, k)) = 1

\* the rows of an event
RowsOfEvent(rows, e) == {i \in DOMAIN rows : rows[i].event = e}

\* C29: on the personal_records page best_times holds, for every event
\* that has a record, a record of that event whose time_seconds is the
\* least of the event's records, and no entry for an event without records.
C29_BestTimesAreMinima ==
  (page.route = "personal_records" /\ page.viewed) =>
    \A e \in EventNames :
      IF RowsOfEvent(records, e) = {}
      THEN page.best_times[e] = 0
      ELSE /\ page.best_times[e] \in RowsOfEvent(records, e)
           /\ \A j \in RowsOfEvent(records, e) :
                records[page.best_times[e]].time_seconds <= records[j].time_seconds

C29_Witness ==
  /\ page.route = "personal_records"
  /\ page.viewed
  /\ page.best_times["200M"] = 0
  /\ page.best_times["300m Hurdles"] # 0
  /\ \E j \in RowsOfEvent(records, "300m Hurdles") :
       /\ records[j].date_achieved > records[page.best_times["300m Hurdles"]].date_achieved
       /\ records[j].time_seconds > records[page.best_times["300m Hurdles"]].time_seconds

\* C30: get_daily_endurance_workout follows a 7-day microcycle: for every
\* integer training_day, negative ones included, it returns the workout of
\* slot training_day mod 7 (floor modulo) adjusted for the phase; the
\* response of /api/endurance-workout reports that slot as day_in_cycle,
\* and the workout is never the default fallback.
C30_SevenDayMicrocycle ==
  (page.route = "api_endurance_workout" /\ ~page.failed) =>
    \E slot \in 0..6 :
      /\ IsFloorMod(slot, page.training_day, 7)
      /\ page.day_in_cycle = slot
      /\ page.workout = AdjustWorkoutForPhase(Workouts[slot], PhaseConfig(page.training_phase))
      /\ page.workout # DefaultEnduranceWorkout

C30_Witness ==
  /\ page.route = "api_endurance_workout"
  /\ ~page.failed
  /\ page.training_day = -8
  /\ page.training_phase = "peak_phase"
  /\ page.day_in_cycle = 6
  /\ page.workout = [workout_type |-> "Active Recovery Day", intensity_level |-> 3,
                     estimated_duration |-> 38]

====
